---- MODULE Spec2Model ----
(***************************************************************************)
(* Model of the Vidya AI study assistant (React/TypeScript).               *)
(*                                                                         *)
(* Part 1: the LiveTutor component (src/unnamed/part_000, lines 12-221):   *)
(* the live voice session with its refs, its React state, every            *)
(* startSession invocation in flight, the duplex connections it opened,    *)
(* the audio contexts it created and the playback queue.                   *)
(*                                                                         *)
(* Part 2: the PCM helpers createBlob / decode / decodeAudioData           *)
(* (lines 134-164) as operators over integers, with the Int16Array         *)
(* conversion and base64 modelled by what they compute.                    *)
(*                                                                         *)
(* Scheduling.  JavaScript runs one task at a time.  Each action below is  *)
(* one task (an event handler run to its first real suspension).  The two  *)
(* awaits of startSession (getUserMedia, the connect promise) wait for the *)
(* environment, so other tasks run in between.  decodeAudioData is an      *)
(* async function without any await inside: its promise is settled when it *)
(* returns, so the continuation of onmessage is a microtask of the very    *)
(* task that delivered the message and runs before any other task.  The    *)
(* variable decoding holds that pending continuation; every other action   *)
(* is disabled while it is pending.                                        *)
(*                                                                         *)
(* Time is counted in sample frames of the 24 kHz playback context, so a   *)
(* buffer of n frames has duration n.                                      *)
(*                                                                         *)
(* Capture.  Each buffer the ScriptProcessor delivers registers one send   *)
(* on the connect promise (lines 67-71); the sends run, in order, when the *)
(* promise is fulfilled.  lastOp names the handler that ran last.          *)
(***************************************************************************)
EXTENDS Integers, Sequences, FiniteSets, TLC

\* ---------------------------------------------------------------- bounds
MaxStarts == 2     \* Start Session clicks
MaxMsgs == 3       \* server messages delivered to one session
MaxMsgsAcrossStarts == 2   \* server messages delivered when Start is clicked repeatedly
MaxBytes == 4      \* decoded byte length of an inbound audio payload
MaxTime == 3       \* ticks of a playback context's clock
SubSteps == 2      \* sample values are multiples of 1/(32768 * SubSteps)
MaxSamples == 3    \* length of a captured buffer
MaxFrames == 3     \* buffers delivered by one ScriptProcessor
ShortQuiz == 2     \* questions in a quiz shorter than asked for
MaxQuizzes == 2    \* quizzes started (generated or retried)
MaxSelects == 1    \* clicks on an answer option
MaxActiveSeconds == 2  \* seconds of a quiz after which the user only waits
MaxExtraResults == 1   \* quizzes finished beyond the history limit
MaxExams == 2      \* rows of the exam list
MaxDays == 1       \* days of a generated study plan
HistoryActiveSeconds == 0  \* the same, while the history is filled

\* ------------------------------------------------------------- constants
Null == 0
None == [kind |-> "none"]
Attempts == 1..MaxStarts

NoError == ""
ConnectionError == "Connection error."
StartError == "Failed to access microphone or connect."

VARIABLES
  \* React state of the component
  mounted, isConnected, isSpeaking, error,
  \* refs
  inputContextRef, outputContextRef, sessionRef, nextStartTimeRef, sourcesRef,
  \* one entry per startSession invocation
  nStarts, pc, inputCtx, outputCtx, stream, processors, conn,
  \* playback clock of each output context, stopped sources, pending decode
  currentTime, pendingEnded, decoding, nMsgs, closeError,
  \* history
  lastOp, prevSched, lastSched, run, closedWithQueue,
  \* capture: the connect promise of each invocation, the buffers its
  \* ScriptProcessor delivered, the sends waiting for the promise, and what
  \* the connection received
  promise, captured, pendingFrames, sentFrames,
  \* PCM helpers
  sample, encoded, pcmBytes, decoded, pcmPc,
  \* QuizGenerator: setup state, quiz state, timer, history, the stored
  \* history, the handleGenerate call in flight, a render that threw
  topic, numQuestions, view, quiz, loading, answers, currentQuestionIndex,
  timeLeft, history, quizStorage, generating, crashed,
  \* QuizGenerator history: seconds since the quiz was (re)started, every
  \* result so far (newest first), who finished the last quiz, option clicks
  elapsed, finishedLog, finishedBy, nSelects,
  \* StudyPlanner exams: the exam list (references to exam objects), the
  \* objects, the value under 'vidya_exams', the voice input in progress
  exams, examObjs, examStorage, listening,
  \* StudyPlanner plan: React state, the value under 'vidya_study_plan',
  \* the handleGenerate call in flight, the network state
  plan, planStorage, planLoading, generated, planPending, editingNote,
  noteContent, isOffline,
  \* StudyPlanner history: the handler that ran last
  plannerOp

sessionVars == <<mounted, isConnected, isSpeaking, error,
  inputContextRef, outputContextRef, sessionRef, nextStartTimeRef, sourcesRef,
  nStarts, pc, inputCtx, outputCtx, stream, processors, conn,
  currentTime, pendingEnded, decoding, nMsgs, closeError,
  lastOp, prevSched, lastSched, run, closedWithQueue>>

captureVars == <<promise, captured, pendingFrames, sentFrames>>

pcmVars == <<sample, encoded, pcmBytes, decoded, pcmPc>>

quizVars == <<topic, numQuestions, view, quiz, loading, answers,
  currentQuestionIndex, timeLeft, history, quizStorage, generating, crashed,
  elapsed, finishedLog, finishedBy, nSelects>>

examVars == <<exams, examObjs, examStorage, listening>>

planVars == <<plan, planStorage, planLoading, generated, planPending,
  editingNote, noteContent, isOffline>>

plannerVars == <<examVars, planVars, plannerOp>>

\* the panels next to the live tutor
panelVars == <<quizVars, plannerVars>>

vars == <<sessionVars, captureVars, pcmVars, panelVars>>

Max(a, b) == IF a >= b THEN a ELSE b

\* ------------------------------------------------- audio payload helpers
\* decodeAudioData, line 154: new Int16Array(data.buffer) throws a RangeError
\* when the byte length is not a multiple of 2.
NeverThrows(len) == FALSE
DecodeThrows(len) == len % 2 # 0

\* decodeAudioData, lines 155-156: frameCount = dataInt16.length / channels
\* with channels = 1; the buffer's duration is frameCount frames.
Duration(len) == len \div 2

\* onmessage, line 84: the cursor is raised to the playback clock
CursorAtArrival(cursor, now) == Max(cursor, now)

\* onmessage, line 94: source.start(nextStartTimeRef.current)
StartAtClock(cursor, now) == now
StartTime(cursor, now) == cursor

\* onmessage, line 95: nextStartTimeRef.current += audioBuffer.duration
CursorNotAdvanced(cursor, dur) == cursor
AdvanceCursor(cursor, dur) == cursor + dur

End(s) == s.start + s.dur

\* React drops state updates of an unmounted component
SetState(cur, v) == IF mounted THEN v ELSE cur

\* Session.close() on a connection
CloseConn(c) == IF c \in {"open", "failed"} THEN "closing" ELSE c

\* ------------------------------------------------------------------ Init
SessionInit ==
  /\ mounted = TRUE /\ isConnected = FALSE /\ isSpeaking = FALSE /\ error = NoError
  /\ inputContextRef = Null /\ outputContextRef = Null /\ sessionRef = Null
  /\ nextStartTimeRef = 0 /\ sourcesRef = {}
  /\ nStarts = 0
  /\ pc = [a \in Attempts |-> "idle"]
  /\ inputCtx = [a \in Attempts |-> "none"]
  /\ outputCtx = [a \in Attempts |-> "none"]
  /\ stream = {} /\ processors = {}
  /\ conn = [a \in Attempts |-> "none"]
  /\ currentTime = [a \in Attempts |-> 0]
  /\ pendingEnded = 0 /\ decoding = None /\ nMsgs = 0 /\ closeError = FALSE
  /\ lastOp = "init" /\ prevSched = None /\ lastSched = None
  /\ run = [active |-> FALSE, rises |-> 0]
  /\ closedWithQueue = FALSE
  /\ promise = [a \in Attempts |-> "none"]
  /\ captured = [a \in Attempts |-> 0]
  /\ pendingFrames = [a \in Attempts |-> <<>>]
  /\ sentFrames = [a \in Attempts |-> <<>>]

\* --------------------------------------------------------- stopSession
\* lines 27-44.  connBase is the connection table as the calling handler
\* left it.  Stopped sources fire their 'ended' event later (pendingEnded).
StopSessionKeepsContextRefs(connBase) ==
  /\ conn' = IF sessionRef # Null
             THEN [connBase EXCEPT ![sessionRef] = CloseConn(@)] ELSE connBase
  /\ sessionRef' = Null
  /\ inputCtx' = IF inputContextRef # Null
                 THEN [inputCtx EXCEPT ![inputContextRef] = "closed"] ELSE inputCtx
  /\ outputCtx' = IF outputContextRef # Null
                  THEN [outputCtx EXCEPT ![outputContextRef] = "closed"] ELSE outputCtx
  /\ closeError' = (closeError
                    \/ (inputContextRef # Null /\ inputCtx[inputContextRef] # "running")
                    \/ (outputContextRef # Null /\ outputCtx[outputContextRef] # "running"))
  /\ UNCHANGED <<inputContextRef, outputContextRef, currentTime>>
  /\ closedWithQueue' = ((inputContextRef # Null \/ outputContextRef # Null)
                          /\ sourcesRef # {})
  /\ pendingEnded' = pendingEnded + Cardinality(sourcesRef)
  /\ sourcesRef' = {}
  /\ isConnected' = SetState(isConnected, FALSE)
  /\ isSpeaking' = SetState(isSpeaking, FALSE)
  /\ prevSched' = None /\ lastSched' = None
  /\ run' = [active |-> FALSE, rises |-> 0]

StopSession(connBase) ==
  \* lines 28-31
  /\ conn' = IF sessionRef # Null
             THEN [connBase EXCEPT ![sessionRef] = CloseConn(@)] ELSE connBase
  /\ sessionRef' = Null
  \* lines 32-35
  /\ inputCtx' = IF inputContextRef # Null
                 THEN [inputCtx EXCEPT ![inputContextRef] = "closed"] ELSE inputCtx
  /\ inputContextRef' = Null
  \* lines 36-39
  /\ outputCtx' = IF outputContextRef # Null
                  THEN [outputCtx EXCEPT ![outputContextRef] = "closed"] ELSE outputCtx
  /\ outputContextRef' = Null
  \* AudioContext.close() on a context that is not running rejects
  /\ closeError' = (closeError
                    \/ (inputContextRef # Null /\ inputCtx[inputContextRef] # "running")
                    \/ (outputContextRef # Null /\ outputCtx[outputContextRef] # "running"))
  \* the clock of a closed context is never read again
  /\ currentTime' = IF outputContextRef # Null
                    THEN [currentTime EXCEPT ![outputContextRef] = 0] ELSE currentTime
  \* lines 32-39 run before lines 40-41: the contexts are closed while the
  \* queue still holds every source
  /\ closedWithQueue' = ((inputContextRef # Null \/ outputContextRef # Null)
                          /\ sourcesRef # {})
  \* lines 40-41
  /\ pendingEnded' = pendingEnded + Cardinality(sourcesRef)
  /\ sourcesRef' = {}
  \* lines 42-43
  /\ isConnected' = SetState(isConnected, FALSE)
  /\ isSpeaking' = SetState(isSpeaking, FALSE)
  /\ prevSched' = None /\ lastSched' = None
  /\ run' = [active |-> FALSE, rises |-> 0]

\* History: the handler that ran last.  A teardown that directly follows
\* another teardown is recorded as "stoppedAgain".
TeardownOps == {"stop", "close", "error", "errorConnecting", "micDenied",
                "rejected", "unmount", "stoppedAgain"}
Teardown(op) == IF lastOp \in TeardownOps THEN "stoppedAgain" ELSE op

\* no continuation of onmessage is pending: a new task may run
DecodeSpansTasks == TRUE
Idle == decoding = None

\* ------------------------------------------------------------- capture
\* createBlob, lines 139-142: what sendRealtimeInput is handed for the
\* n-th buffer of a ScriptProcessor
PcmMimeType == "audio/pcm;rate=16000"
Blob(n) == [data |-> n, mimeType |-> PcmMimeType]

\* Reactions registered on one promise with then() run in the order of
\* their registration once it is fulfilled (lines 69-70)
ReactionsDropped(q) == <<>>
Reactions(q) == q

\* session.sendRealtimeInput, line 70: a socket that is no longer open
\* discards what it is handed
Send(sent, c, blob) == IF c = "open" THEN Append(sent, blob) ELSE sent

\* -------------------------------------------------------- startSession
\* Click on "Start Session" (rendered while !isConnected, line 194):
\* lines 47-56, up to the await of getUserMedia.
StartClickConnectsFirst(limit) ==
  /\ Idle /\ mounted /\ ~isConnected /\ nStarts < limit
  /\ UNCHANGED <<captureVars, pcmVars, panelVars>>
  /\ LET a == nStarts + 1 IN
       /\ nStarts' = a
       /\ error' = NoError
       /\ inputCtx' = [inputCtx EXCEPT ![a] = "running"]
       /\ outputCtx' = [outputCtx EXCEPT ![a] = "running"]
       /\ inputContextRef' = a
       /\ outputContextRef' = a
       /\ pc' = [pc EXCEPT ![a] = "mic"]
       /\ conn' = [conn EXCEPT ![a] = "connecting"]
  /\ lastOp' = "start"
  /\ UNCHANGED <<mounted, isConnected, isSpeaking, sessionRef, nextStartTimeRef,
                 sourcesRef, stream, processors, currentTime, pendingEnded,
                 decoding, nMsgs, closeError, closedWithQueue, prevSched, lastSched, run>>

StartClick(limit) ==
  /\ Idle /\ mounted /\ ~isConnected /\ nStarts < limit
  /\ UNCHANGED <<captureVars, pcmVars, panelVars>>
  /\ LET a == nStarts + 1 IN
       /\ nStarts' = a
       /\ error' = NoError
       /\ inputCtx' = [inputCtx EXCEPT ![a] = "running"]
       /\ outputCtx' = [outputCtx EXCEPT ![a] = "running"]
       /\ inputContextRef' = a
       /\ outputContextRef' = a
       /\ pc' = [pc EXCEPT ![a] = "mic"]
  /\ lastOp' = "start"
  /\ UNCHANGED <<mounted, isConnected, isSpeaking, sessionRef, nextStartTimeRef,
                 sourcesRef, stream, processors, conn, currentTime, pendingEnded,
                 decoding, nMsgs, closeError, closedWithQueue, prevSched, lastSched, run>>

\* getUserMedia resolves: line 56, then connectLiveSession is called (59)
\* and startSession suspends at line 120.
MicGrantedSetsConnected(a) ==
  /\ Idle /\ pc[a] = "mic"
  /\ UNCHANGED <<pcmVars, panelVars>>
  /\ stream' = stream \cup {a}
  /\ promise' = [promise EXCEPT ![a] = "pending"]
  /\ UNCHANGED <<captured, pendingFrames, sentFrames>>
  /\ conn' = [conn EXCEPT ![a] = "connecting"]
  /\ pc' = [pc EXCEPT ![a] = "session"]
  /\ isConnected' = SetState(isConnected, TRUE)
  /\ lastOp' = "micGranted"
  /\ UNCHANGED <<mounted, isSpeaking, error, inputContextRef,
                 outputContextRef, sessionRef, nextStartTimeRef, sourcesRef, nStarts,
                 inputCtx, outputCtx, processors, currentTime, pendingEnded,
                 decoding, nMsgs, closeError, closedWithQueue, prevSched, lastSched, run>>

MicGranted(a) ==
  /\ Idle /\ pc[a] = "mic"
  /\ UNCHANGED <<pcmVars, panelVars>>
  /\ stream' = stream \cup {a}
  /\ promise' = [promise EXCEPT ![a] = "pending"]
  /\ UNCHANGED <<captured, pendingFrames, sentFrames>>
  /\ conn' = [conn EXCEPT ![a] = "connecting"]
  /\ pc' = [pc EXCEPT ![a] = "session"]
  /\ lastOp' = "micGranted"
  /\ UNCHANGED <<mounted, isConnected, isSpeaking, error, inputContextRef,
                 outputContextRef, sessionRef, nextStartTimeRef, sourcesRef, nStarts,
                 inputCtx, outputCtx, processors, currentTime, pendingEnded,
                 decoding, nMsgs, closeError, closedWithQueue, prevSched, lastSched, run>>

\* getUserMedia rejects: catch block, lines 122-126.
MicDenied(a) ==
  /\ Idle /\ pc[a] = "mic"
  /\ UNCHANGED <<captureVars, pcmVars, panelVars>>
  /\ error' = SetState(error, StartError)
  /\ StopSession(conn)
  /\ pc' = [pc EXCEPT ![a] = "done"]
  /\ lastOp' = Teardown("micDenied")
  /\ UNCHANGED <<mounted, nextStartTimeRef, nStarts, stream, processors,
                 decoding, nMsgs>>

\* the connect promise resolves: line 120.  A connect promise resolves
\* once the connection is open; when exactly is up to the library.
SessionResolved(a) ==
  /\ Idle /\ pc[a] = "session" /\ conn[a] = "open"
  /\ UNCHANGED <<pcmVars, panelVars>>
  /\ sessionRef' = a
  \* lines 69-70: the sends registered on the promise run now
  /\ promise' = [promise EXCEPT ![a] = "resolved"]
  /\ sentFrames' = [sentFrames EXCEPT ![a] = @ \o Reactions(pendingFrames[a])]
  /\ pendingFrames' = [pendingFrames EXCEPT ![a] = <<>>]
  /\ UNCHANGED captured
  /\ pc' = [pc EXCEPT ![a] = "done"]
  /\ lastOp' = "resolved"
  /\ UNCHANGED <<mounted, isConnected, isSpeaking, error, inputContextRef,
                 outputContextRef, nextStartTimeRef, sourcesRef, nStarts, inputCtx,
                 outputCtx, stream, processors, conn, currentTime, pendingEnded,
                 decoding, nMsgs, closeError, closedWithQueue, prevSched, lastSched, run>>

\* the connect promise rejects: catch block, lines 122-126.
SessionRejected(a) ==
  /\ Idle /\ pc[a] = "session" /\ conn[a] \in {"connecting", "failed"}
  /\ UNCHANGED <<pcmVars, panelVars>>
  \* the sends registered on the promise (lines 69-70) never run
  /\ promise' = [promise EXCEPT ![a] = "rejected"]
  /\ UNCHANGED <<captured, pendingFrames, sentFrames>>
  /\ error' = SetState(error, StartError)
  /\ StopSession([conn EXCEPT ![a] = "closed"])
  /\ pc' = [pc EXCEPT ![a] = "done"]
  /\ lastOp' = Teardown("rejected")
  /\ UNCHANGED <<mounted, nextStartTimeRef, nStarts, stream, processors,
                 decoding, nMsgs>>

\* ------------------------------------------------- connection callbacks
\* onopen, lines 61-75.  createMediaStreamSource throws on a closed
\* context, after setIsConnected(true) has run.
OnOpen(a) ==
  /\ Idle /\ conn[a] = "connecting"
  /\ UNCHANGED <<captureVars, pcmVars, panelVars>>
  /\ conn' = [conn EXCEPT ![a] = "open"]
  /\ isConnected' = SetState(isConnected, TRUE)
  /\ processors' = IF inputCtx[a] = "running" THEN processors \cup {a} ELSE processors
  /\ lastOp' = "open"
  /\ UNCHANGED <<mounted, isSpeaking, error, inputContextRef, outputContextRef,
                 sessionRef, nextStartTimeRef, sourcesRef, nStarts, pc, inputCtx,
                 outputCtx, stream, currentTime, pendingEnded, decoding, nMsgs,
                 closeError, closedWithQueue, prevSched, lastSched, run>>

\* onaudioprocess, lines 67-71: the ScriptProcessor delivers a buffer while
\* its context runs.  The send waits for the connect promise.
AudioProcess(a, limit) ==
  /\ Idle /\ a \in processors /\ inputCtx[a] = "running" /\ captured[a] < limit
  /\ UNCHANGED <<pcmVars, panelVars>>
  /\ captured' = [captured EXCEPT ![a] = @ + 1]
  /\ lastOp' = "audioprocess"
  /\ UNCHANGED <<mounted, isConnected, isSpeaking, error, inputContextRef,
                 outputContextRef, sessionRef, nextStartTimeRef, sourcesRef, nStarts,
                 pc, inputCtx, outputCtx, stream, processors, conn, currentTime,
                 pendingEnded, decoding, nMsgs, closeError, closedWithQueue,
                 prevSched, lastSched, run>>
  /\ LET pcmBlob == Blob(captured[a] + 1) IN
       CASE promise[a] = "resolved" ->
              /\ sentFrames' = [sentFrames EXCEPT ![a] = Send(@, conn[a], pcmBlob)]
              /\ UNCHANGED pendingFrames
         [] promise[a] = "pending" ->
              /\ pendingFrames' = [pendingFrames EXCEPT ![a] = Append(@, pcmBlob)]
              /\ UNCHANGED sentFrames
         [] OTHER -> UNCHANGED <<pendingFrames, sentFrames>>
  /\ UNCHANGED promise

\* onclose, lines 106-109
OnClose(a) ==
  /\ Idle /\ conn[a] \in {"open", "failed", "closing"}
  /\ UNCHANGED <<captureVars, pcmVars, panelVars>>
  /\ StopSession([conn EXCEPT ![a] = "closed"])
  /\ lastOp' = Teardown("close")
  /\ UNCHANGED <<mounted, error, nextStartTimeRef, nStarts, pc, stream, processors,
                 decoding, nMsgs>>

\* onerror, lines 110-114
OnError(a) ==
  /\ Idle /\ conn[a] \in {"connecting", "open"}
  /\ UNCHANGED <<captureVars, pcmVars, panelVars>>
  /\ error' = SetState(error, ConnectionError)
  /\ StopSession([conn EXCEPT ![a] = "failed"])
  /\ lastOp' = Teardown(IF conn[a] = "connecting" THEN "errorConnecting" ELSE "error")
  /\ UNCHANGED <<mounted, nextStartTimeRef, nStarts, pc, stream, processors,
                 decoding, nMsgs>>

\* Click on "End Session" (rendered while isConnected, line 203)
StopClick ==
  /\ Idle /\ mounted /\ isConnected
  /\ UNCHANGED <<captureVars, pcmVars, panelVars>>
  /\ StopSession(conn)
  /\ lastOp' = Teardown("stop")
  /\ UNCHANGED <<mounted, error, nextStartTimeRef, nStarts, pc, stream, processors,
                 decoding, nMsgs>>

\* unmount effect, lines 129-131.  The component's state is gone with it.
Unmount ==
  /\ Idle /\ mounted
  /\ UNCHANGED <<captureVars, pcmVars, panelVars>>
  /\ StopSession(conn)
  /\ mounted' = FALSE
  /\ lastOp' = Teardown("unmount")
  /\ UNCHANGED <<error, nextStartTimeRef, nStarts, pc, stream, processors,
                 decoding, nMsgs>>

\* ------------------------------------------------------------ onmessage
\* lines 99-104: the interruption block
\* queue is the playback queue when the block is reached
Interrupted(queue) ==
  /\ pendingEnded' = pendingEnded + Cardinality(queue)      \* line 100
  /\ sourcesRef' = {}                                       \* line 101
  /\ nextStartTimeRef' = 0                                  \* line 102
  /\ isSpeaking' = SetState(isSpeaking, FALSE)              \* line 103
  /\ prevSched' = None
  /\ lastSched' = [kind |-> "interrupt"]
  /\ run' = [active |-> FALSE, rises |-> 0]

\* History of the current run of chunks: a chunk continues the run when it
\* arrives before the scheduled end of its predecessor; it starts a run when
\* the session is Connected and not Speaking with an empty queue.
RunAtArrival(now) ==
  IF run.active /\ lastSched.kind = "chunk" /\ now < End(lastSched)
  THEN [run EXCEPT !.rises = @ + (IF isSpeaking THEN 0 ELSE 1)]
  ELSE IF isConnected /\ ~isSpeaking /\ sourcesRef = {}
       THEN [active |-> TRUE, rises |-> 1]
       ELSE [active |-> FALSE, rises |-> 0]

\* A server message arrives on connection a (lines 76-86 and 99-104): len is
\* the decoded byte length of parts[0].inlineData.data (0: no audio, an
\* empty string is falsy), interrupted is serverContent.interrupted.
OnMessage(a, len, interrupted) ==
  /\ Idle /\ conn[a] \in {"open", "closing"}
  /\ UNCHANGED <<captureVars, pcmVars, panelVars>>
  \* a message with neither audio nor interruption leaves everything as it is
  /\ nMsgs' = IF len > 0 \/ interrupted THEN nMsgs + 1 ELSE nMsgs
  /\ IF len > 0
     THEN /\ isSpeaking' = SetState(isSpeaking, TRUE)           \* line 80
          /\ IF outputContextRef = Null
             THEN \* line 81: return, the interruption block is skipped
                  /\ lastOp' = IF interrupted THEN "interrupted" ELSE "message"
                  /\ run' = [active |-> FALSE, rises |-> 0]
                  /\ UNCHANGED <<nextStartTimeRef, decoding, sourcesRef, pendingEnded,
                                 prevSched, lastSched>>
             ELSE \* lines 83-86, up to the await
                  /\ nextStartTimeRef' =
                       CursorAtArrival(nextStartTimeRef, currentTime[outputContextRef])
                  /\ decoding' = [kind |-> "decode", ctx |-> outputContextRef,
                                  len |-> len, interrupted |-> interrupted, id |-> nMsgs + 1,
                                  at |-> currentTime[outputContextRef]]
                  /\ run' = RunAtArrival(currentTime[outputContextRef])
                  /\ lastOp' = "decoding"
                  /\ UNCHANGED <<sourcesRef, pendingEnded, prevSched, lastSched>>
     ELSE /\ IF interrupted
             THEN Interrupted(sourcesRef)
             ELSE UNCHANGED <<nextStartTimeRef, sourcesRef, pendingEnded, isSpeaking,
                              prevSched, lastSched, run>>
          /\ lastOp' = IF interrupted THEN "interrupted" ELSE lastOp
          /\ UNCHANGED decoding
  /\ UNCHANGED <<mounted, isConnected, error, inputContextRef, outputContextRef,
                 sessionRef, nStarts, pc, inputCtx, outputCtx, stream, processors,
                 conn, currentTime, closeError, closedWithQueue>>

\* The continuation of onmessage after the await of line 86 (lines 86-104).
DecodeResume ==
  /\ decoding # None
  /\ UNCHANGED <<captureVars, pcmVars, panelVars>>
  /\ decoding' = None
  /\ IF DecodeThrows(decoding.len)
     THEN \* the RangeError leaves onmessage: nothing after line 86 runs
          /\ lastOp' = IF decoding.interrupted THEN "interrupted" ELSE "decodeFailed"
          /\ run' = [active |-> FALSE, rises |-> 0]
          /\ UNCHANGED <<nextStartTimeRef, sourcesRef, pendingEnded, isSpeaking,
                         prevSched, lastSched>>
     ELSE LET dur == Duration(decoding.len)
              src == [kind |-> "chunk", id |-> decoding.id, ctx |-> decoding.ctx,
                      start |-> StartTime(nextStartTimeRef, currentTime[decoding.ctx]),
                      dur |-> dur, at |-> decoding.at]
          IN IF decoding.interrupted
             THEN \* lines 87-96, then the interruption block
                  /\ Interrupted(sourcesRef \cup {src})
                  /\ lastOp' = "interrupted"
             ELSE \* lines 87-96
                  /\ sourcesRef' = sourcesRef \cup {src}
                  /\ nextStartTimeRef' = AdvanceCursor(nextStartTimeRef, dur)
                  /\ prevSched' = lastSched
                  /\ lastSched' = src
                  /\ lastOp' = "scheduled"
                  /\ UNCHANGED <<pendingEnded, isSpeaking, run>>
  /\ UNCHANGED <<mounted, isConnected, error, inputContextRef, outputContextRef,
                 sessionRef, nStarts, pc, inputCtx, outputCtx, stream, processors,
                 conn, currentTime, nMsgs, closeError, closedWithQueue>>

\* 'ended' listener, lines 90-93, for a source that played to its end
EndedAlwaysClears(s) == SetState(isSpeaking, FALSE)
EndedSpeaking(s) ==
  IF sourcesRef \ {s} = {} THEN SetState(isSpeaking, FALSE) ELSE isSpeaking

Ended(s) ==
  /\ Idle /\ s \in sourcesRef
  /\ UNCHANGED <<captureVars, pcmVars, panelVars>>
  /\ outputCtx[s.ctx] = "running" /\ currentTime[s.ctx] >= End(s)
  /\ sourcesRef' = sourcesRef \ {s}
  /\ isSpeaking' = EndedSpeaking(s)
  /\ lastOp' = "ended"
  /\ UNCHANGED <<mounted, isConnected, error, inputContextRef, outputContextRef,
                 sessionRef, nextStartTimeRef, nStarts, pc, inputCtx, outputCtx, stream,
                 processors, conn, currentTime, pendingEnded, decoding, nMsgs,
                 closeError, closedWithQueue, prevSched, lastSched, run>>

\* 'ended' listener, lines 90-93, for a source that was stopped and is no
\* longer in the queue: delete is a no-op
StoppedEnded ==
  /\ Idle /\ pendingEnded > 0
  /\ UNCHANGED <<captureVars, pcmVars, panelVars>>
  /\ pendingEnded' = pendingEnded - 1
  /\ isSpeaking' = IF sourcesRef = {} THEN SetState(isSpeaking, FALSE) ELSE isSpeaking
  /\ lastOp' = "ended"
  /\ UNCHANGED <<mounted, isConnected, error, inputContextRef, outputContextRef,
                 sessionRef, nextStartTimeRef, sourcesRef, nStarts, pc, inputCtx,
                 outputCtx, stream, processors, conn, currentTime, decoding, nMsgs,
                 closeError, closedWithQueue, prevSched, lastSched, run>>

\* the clock of the playback context in use advances by one frame
Tick ==
  /\ Idle /\ outputContextRef # Null /\ currentTime[outputContextRef] < MaxTime
  /\ UNCHANGED <<captureVars, pcmVars, panelVars>>
  /\ currentTime' = [currentTime EXCEPT ![outputContextRef] = @ + 1]
  /\ UNCHANGED <<mounted, isConnected, isSpeaking, error, inputContextRef,
                 outputContextRef, sessionRef, nextStartTimeRef, sourcesRef, nStarts,
                 pc, inputCtx, outputCtx, stream, processors, conn, pendingEnded,
                 decoding, nMsgs, closeError, closedWithQueue, lastOp, prevSched, lastSched, run>>

\* ====================================================== QuizGenerator
\* src/unnamed/part_000, lines 1080-1190.  State updates made by one handler
\* (or by one continuation after an await) are committed together, and the
\* effects of that commit run before the next task: the action of a handler
\* includes them.
SecondsPerQuestion == 60
HistoryLimit == 10
QuestionCounts == {5, 10, 15}
Topics == {"", " ", "sets"}
Options == {"A", "B"}

\* String.prototype.trim on the topics above
Trim(t) == IF t = " " THEN "" ELSE t

\* a question as far as the score needs it (lines 1157-1163)
Question == [correctAnswer |-> "A"]
NoAnswers == [i \in {} |-> "A"]

\* JSON.stringify / JSON.parse of the history (lines 1098, 1106): an array
\* of objects becomes the list of their values and back
Stringify(h) == [i \in 1..Len(h) |-> <<h[i].topic, h[i].score, h[i].total>>]
Parse(str) == [i \in 1..Len(str) |->
                 [topic |-> str[i][1], score |-> str[i][2], total |-> str[i][3]]]
Absent == [present |-> FALSE, value |-> <<>>]
Stored(str) == [present |-> TRUE, value |-> str]

\* history initializer, lines 1096-1103
LoadHistory(item) == IF item.present THEN Parse(item.value) ELSE <<>>

\* line 1174: [result, ...prev].slice(0, 10)
KeepAll(h) == h
KeepLast(h) == SubSeq(h, 1, IF Len(h) < HistoryLimit THEN Len(h) ELSE HistoryLimit)

\* calculateScore, lines 1157-1163; answers is keyed from 0
CalculateScore ==
  Cardinality({i \in 1..Len(quiz) :
                 (i - 1) \in DOMAIN answers /\ answers[i - 1] = quiz[i].correctAnswer})

\* Mount with localStorage as it is: the state initializers (lines
\* 1081-1103) and the first run of the persistence effect (1105-1107)
QuizMounted(item) ==
  /\ topic = "" /\ numQuestions = 5
  /\ view = "SETUP" /\ quiz = <<>> /\ loading = FALSE /\ answers = NoAnswers
  /\ currentQuestionIndex = 0 /\ timeLeft = 0
  /\ history = LoadHistory(item)
  /\ quizStorage = Stored(Stringify(LoadHistory(item)))
  /\ generating = None /\ crashed = FALSE

QuizInit ==
  /\ QuizMounted(Absent)
  /\ elapsed = 0 /\ finishedLog = <<>> /\ finishedBy = "none" /\ nSelects = 0

\* everything outside the quiz panel
notQuizVars == <<sessionVars, captureVars, pcmVars, plannerVars>>

\* the quiz panel is rendered and reacts to the user
QuizLive == ~crashed

\* topic input, line 1212 (rendered in the SETUP view)
SetTopic(t) ==
  /\ QuizLive /\ view = "SETUP" /\ t # topic
  /\ topic' = t
  /\ UNCHANGED <<numQuestions, view, quiz, loading, answers, currentQuestionIndex,
                 timeLeft, history, quizStorage, generating, crashed,
                 elapsed, finishedLog, finishedBy, nSelects, notQuizVars>>

\* question count buttons, lines 1241-1253
SetNumQuestions(n) ==
  /\ QuizLive /\ view = "SETUP" /\ n # numQuestions
  /\ numQuestions' = n
  /\ UNCHANGED <<topic, view, quiz, loading, answers, currentQuestionIndex,
                 timeLeft, history, quizStorage, generating, crashed,
                 elapsed, finishedLog, finishedBy, nSelects, notQuizVars>>

\* handleGenerate up to its await, lines 1122-1129; the button is disabled
\* while loading or without a topic (line 1260)
HandleGenerate ==
  /\ QuizLive /\ view = "SETUP" /\ ~loading /\ topic # ""
  /\ IF Trim(topic) = ""
     THEN UNCHANGED <<loading, quiz, answers, generating>>
     ELSE /\ loading' = TRUE /\ quiz' = <<>> /\ answers' = NoAnswers
          /\ generating' = [kind |-> "generate", numQuestions |-> numQuestions]
  /\ UNCHANGED <<topic, numQuestions, view, currentQuestionIndex, timeLeft, history,
                 quizStorage, crashed, elapsed, finishedLog, finishedBy, nSelects,
                 notQuizVars>>

\* generateQuiz resolves with n questions (n = 0: empty or unparsable
\* response, src/types.ts lines 226-233): lines 1129-1133 and 1137.
\* renderQuiz (lines 1290-1292) then reads quiz[0].question and throws when
\* the quiz is empty; without an error boundary the panel is gone.
GenerateResolved(n) ==
  /\ generating # None
  /\ quiz' = [i \in 1..n |-> Question]
  /\ view' = "QUIZ"
  /\ currentQuestionIndex' = 0
  /\ timeLeft' = generating.numQuestions * SecondsPerQuestion
  /\ loading' = FALSE
  /\ generating' = None
  /\ crashed' = (n = 0)
  /\ elapsed' = 0
  /\ UNCHANGED <<topic, numQuestions, answers, history, quizStorage,
                 finishedLog, finishedBy, nSelects, notQuizVars>>

\* generateQuiz rejects: lines 1134-1137
GenerateFailed ==
  /\ generating # None
  /\ loading' = FALSE
  /\ generating' = None
  /\ UNCHANGED <<topic, numQuestions, view, quiz, answers, currentQuestionIndex,
                 timeLeft, history, quizStorage, crashed,
                 elapsed, finishedLog, finishedBy, nSelects, notQuizVars>>

\* handleOptionSelect, lines 1141-1143
HandleOptionSelect(option) ==
  /\ QuizLive /\ view = "QUIZ"
  /\ answers' = [i \in DOMAIN answers \cup {currentQuestionIndex} |->
                   IF i = currentQuestionIndex THEN option ELSE answers[i]]
  /\ nSelects' = nSelects + 1
  /\ UNCHANGED <<topic, numQuestions, view, quiz, loading, currentQuestionIndex,
                 timeLeft, history, quizStorage, generating, crashed,
                 elapsed, finishedLog, finishedBy, notQuizVars>>

\* nextQuestion, lines 1145-1149; the Next button replaces Finish on every
\* question but the last (line 1349)
NextQuestion ==
  /\ QuizLive /\ view = "QUIZ" /\ currentQuestionIndex # Len(quiz) - 1
  /\ currentQuestionIndex' = IF currentQuestionIndex < Len(quiz) - 1
                             THEN currentQuestionIndex + 1 ELSE currentQuestionIndex
  /\ UNCHANGED <<topic, numQuestions, view, quiz, loading, answers,
                 timeLeft, history, quizStorage, generating, crashed,
                 elapsed, finishedLog, finishedBy, nSelects, notQuizVars>>

\* prevQuestion, lines 1151-1155; the button is disabled on question 0
PrevQuestion ==
  /\ QuizLive /\ view = "QUIZ" /\ currentQuestionIndex # 0
  /\ currentQuestionIndex' = IF currentQuestionIndex > 0
                             THEN currentQuestionIndex - 1 ELSE currentQuestionIndex
  /\ UNCHANGED <<topic, numQuestions, view, quiz, loading, answers,
                 timeLeft, history, quizStorage, generating, crashed,
                 elapsed, finishedLog, finishedBy, nSelects, notQuizVars>>

\* finishQuiz, lines 1165-1176, and the persistence effect it triggers
\* (lines 1105-1107)
FinishQuiz(by) ==
  LET result == [topic |-> topic, score |-> CalculateScore, total |-> Len(quiz)] IN
    /\ history' = KeepLast(<<result>> \o history)
    /\ quizStorage' = Stored(Stringify(KeepLast(<<result>> \o history)))
    /\ view' = "RESULT"
    /\ finishedLog' = <<result>> \o finishedLog
    /\ finishedBy' = by

\* click on Finish, shown on the last question (lines 1349-1352)
FinishClick ==
  /\ QuizLive /\ view = "QUIZ" /\ currentQuestionIndex = Len(quiz) - 1
  /\ FinishQuiz("submit")
  /\ UNCHANGED <<topic, numQuestions, quiz, loading, answers, currentQuestionIndex,
                 timeLeft, generating, crashed, elapsed, nSelects, notQuizVars>>

\* The timer effect (lines 1109-1120): while timeLeft > 0 an interval is
\* installed that decrements timeLeft after one second; the effect runs
\* again for the new timeLeft.  RunDown(t, n) is timeLeft after n seconds:
\* n decrements, of which those at timeLeft <= 0 do not take place.
RunDown(t, n) == IF t > n THEN t - n ELSE IF t > 0 THEN 0 ELSE t

\* n seconds pass in the QUIZ view with no other event in between; the
\* effect calls finishQuiz when it sees timeLeft = 0.
QuizTick(n) ==
  /\ QuizLive /\ view = "QUIZ" /\ timeLeft > 0 /\ n \in 1..timeLeft
  /\ timeLeft' = RunDown(timeLeft, n)
  /\ elapsed' = elapsed + n
  /\ IF RunDown(timeLeft, n) = 0
     THEN FinishQuiz("timer")
     ELSE UNCHANGED <<history, quizStorage, view, finishedLog, finishedBy>>
  /\ UNCHANGED <<topic, numQuestions, quiz, loading, answers, currentQuestionIndex,
                 generating, crashed, nSelects, notQuizVars>>

\* resetQuiz, lines 1178-1183
ResetQuiz ==
  /\ QuizLive /\ view = "RESULT"
  /\ view' = "SETUP" /\ quiz' = <<>> /\ topic' = "" /\ answers' = NoAnswers
  /\ elapsed' = 0
  /\ UNCHANGED <<numQuestions, loading, currentQuestionIndex, timeLeft, history,
                 quizStorage, generating, crashed, finishedLog, finishedBy,
                 nSelects, notQuizVars>>

\* retryQuiz, lines 1185-1190
RetryQuiz ==
  /\ QuizLive /\ view = "RESULT"
  /\ answers' = NoAnswers
  /\ currentQuestionIndex' = 0
  /\ timeLeft' = Len(quiz) * SecondsPerQuestion
  /\ view' = "QUIZ"
  /\ elapsed' = 0
  /\ UNCHANGED <<topic, numQuestions, quiz, loading, history, quizStorage,
                 generating, crashed, finishedLog, finishedBy, nSelects, notQuizVars>>

\* The panel is mounted again (the page is reloaded or the user comes back
\* to the panel): its state starts over from localStorage; a handleGenerate
\* still in flight updates a component that is gone.
QuizRemount ==
  /\ (view # "SETUP" \/ loading \/ topic # "" \/ numQuestions # 5 \/ timeLeft # 0
      \/ currentQuestionIndex # 0)
  /\ topic' = "" /\ numQuestions' = 5
  /\ view' = "SETUP" /\ quiz' = <<>> /\ loading' = FALSE /\ answers' = NoAnswers
  /\ currentQuestionIndex' = 0 /\ timeLeft' = 0
  /\ history' = LoadHistory(quizStorage)
  /\ quizStorage' = Stored(Stringify(LoadHistory(quizStorage)))
  /\ generating' = None /\ crashed' = FALSE
  /\ elapsed' = 0
  /\ UNCHANGED <<finishedLog, finishedBy, nSelects, notQuizVars>>

\* The quiz panel: lens are the lengths of the lists generateQuiz returns,
\* counts the question counts the user picks; whatever happens during a
\* quiz happens within its first maxActive seconds, or the quiz runs out;
\* the topic is edited while a quiz is being generated only if editLoading
QuizNext(lens, counts, maxQuizzes, maxSelects, maxActive, editLoading) ==
  \/ \E t \in Topics : (loading => editLoading) /\ SetTopic(t)
  \/ \E n \in counts : SetNumQuestions(n)
  \/ Len(finishedLog) < maxQuizzes /\ HandleGenerate
  \/ \E n \in lens : GenerateResolved(n)
  \/ GenerateFailed
  \/ \E o \in Options :
        nSelects < maxSelects /\ elapsed <= maxActive /\ HandleOptionSelect(o)
  \/ elapsed <= maxActive /\ NextQuestion
  \/ elapsed <= maxActive /\ PrevQuestion
  \/ elapsed <= maxActive /\ FinishClick
  \/ \E n \in {1, timeLeft} : (n = 1 => elapsed < maxActive) /\ QuizTick(n)
  \/ ResetQuiz
  \/ Len(finishedLog) < maxQuizzes /\ RetryQuiz
  \/ QuizRemount

\* A few quizzes: generateQuiz returns no question, fewer questions than
\* asked for, as many as asked for, or more
QuizLengths == {0, ShortQuiz, 5, 10}

NextQuiz ==
  QuizNext(QuizLengths, QuestionCounts, MaxQuizzes, MaxSelects, MaxActiveSeconds,
           TRUE)

\* Many short quizzes, enough to fill the history and go beyond its limit
NextQuizHistory ==
  QuizNext({ShortQuiz}, QuestionCounts, HistoryLimit + MaxExtraResults, MaxSelects,
           HistoryActiveSeconds, FALSE)


\* ======================================================= StudyPlanner
\* src/unnamed/part_000, lines 354-590.  As for the quiz, the action of a
\* handler includes the commit of its state updates and the effects of
\* that commit.  The exam list is an array of objects that updateExam
\* changes in place (line 474), and the callback of a voice input keeps
\* the array of the render in which the input was started (line 639): the
\* list is modelled as references into examObjs.  The topics and hours
\* fields only feed the prompt and are left out.
Names == {"", " ", "math"}
Dates == {"", "2026-12-01"}
Notes == {"", "see ch. 5"}
Transcripts == {"math"}
ExamIds == 1..(2 * MaxExams)
BlankExam == [name |-> "", date |-> ""]

\* the exam objects an array of references holds
Deref(ids, objs) == [i \in 1..Len(ids) |-> objs[ids[i]]]

\* JSON.stringify and JSON.parse of an exam list
StringifyExams(es) == [i \in 1..Len(es) |-> <<es[i].name, es[i].date>>]
ParseExams(str) == [i \in 1..Len(str) |-> [name |-> str[i][1], date |-> str[i][2]]]

\* the initializer of exams, lines 356-363
LoadExams(item) == IF item.present THEN ParseExams(item.value) ELSE <<BlankExam>>

\* references held by the current list and by the callback of a voice input
LiveIds(ids, l) == {ids[i] : i \in 1..Len(ids)} \cup
                   (IF l = None THEN {} ELSE {l.snap[i] : i \in 1..Len(l.snap)})

\* a new object
FreshId(ids, l) == CHOOSE i \in ExamIds \ LiveIds(ids, l) :
                     \A j \in ExamIds \ LiveIds(ids, l) : i <= j

\* objects nothing refers to are forgotten
Collect(objs, live) == [i \in ExamIds |-> IF i \in live THEN objs[i] ELSE BlankExam]

\* References are only ever followed, so the objects are kept numbered in
\* the order in which the list and then the callback refer to them.
Order(ids, l) ==
  ids \o SelectSeq(IF l = None THEN <<>> ELSE l.snap,
                   LAMBDA i : \A k \in 1..Len(ids) : ids[k] # i)
Rank(order, i) == CHOOSE k \in 1..Len(order) : order[k] = i

\* setExams(ids) over the objects objs, and the effect of lines 404-406
SetExams(ids, objs, l) ==
  LET order == Order(ids, l) IN
    /\ exams' = [k \in 1..Len(ids) |-> k]
    /\ examObjs' = [j \in ExamIds |-> IF j <= Len(order) THEN objs[order[j]]
                                      ELSE BlankExam]
    /\ examStorage' = Stored(StringifyExams(Deref(ids, objs)))
    /\ listening' = IF l = None THEN None
                    ELSE [l EXCEPT !.snap = [k \in 1..Len(l.snap) |->
                                               Rank(order, l.snap[k])]]

\* a task of a generated plan, and the plans generateStudyPlan returns
Task(s, p) == [subject |-> s, priority |-> p, completed |-> FALSE, notes |-> ""]
Day(n) == [date |-> n,
           tasks |-> IF n = 1 THEN <<Task("bangla", "Low"), Task("math", "High")>>
                     ELSE <<Task("revision", "Medium")>>]
GeneratedPlan(n) == [d \in 1..n |-> Day(d)]

\* JSON.stringify and JSON.parse of a plan
StringifyPlan(p) ==
  [d \in 1..Len(p) |->
     <<p[d].date,
       [t \in 1..Len(p[d].tasks) |->
          <<p[d].tasks[t].subject, p[d].tasks[t].priority,
            p[d].tasks[t].completed, p[d].tasks[t].notes>>]>>]
ParsePlan(str) ==
  [d \in 1..Len(str) |->
     [date |-> str[d][1],
      tasks |-> [t \in 1..Len(str[d][2]) |->
                   [subject |-> str[d][2][t][1], priority |-> str[d][2][t][2],
                    completed |-> str[d][2][t][3], notes |-> str[d][2][t][4]]]]]

\* the initializer of plan, lines 369-378
LoadPlan(item) == IF item.present THEN ParsePlan(item.value) ELSE <<>>

\* the effect of lines 408-413 on localStorage
PersistPlan(p, item) == IF Len(p) > 0 THEN Stored(StringifyPlan(p)) ELSE item

\* localStorage.removeItem, line 507
RemoveItemSkipped(item) == item
RemoveItem(item) == Absent

\* setPlan(p) by a handler that leaves generated at g, with the effect of
\* lines 408-413
SetPlan(p, g) ==
  /\ plan' = p
  /\ planStorage' = PersistPlan(p, planStorage)
  /\ generated' = (Len(p) > 0 \/ g)

\* Mount with localStorage as it is
PlannerMounted(examItem, planItem) ==
  /\ exams = [i \in 1..Len(LoadExams(examItem)) |-> i]
  /\ examObjs = [i \in ExamIds |-> IF i <= Len(LoadExams(examItem))
                                   THEN LoadExams(examItem)[i] ELSE BlankExam]
  /\ examStorage = Stored(StringifyExams(LoadExams(examItem)))
  /\ listening = None
  /\ plan = LoadPlan(planItem)
  /\ planStorage = PersistPlan(LoadPlan(planItem), planItem)
  /\ planLoading = FALSE
  /\ generated = (Len(LoadPlan(planItem)) > 0)
  /\ planPending = FALSE
  /\ editingNote = None /\ noteContent = ""

PlannerInit ==
  /\ PlannerMounted(Absent, Absent)
  /\ isOffline = FALSE
  /\ plannerOp = "mount"

PanelInit == QuizInit /\ PlannerInit

\* everything outside the planner
notPlannerVars == <<sessionVars, captureVars, pcmVars, quizVars>>

\* addExam, line 462
AddExam(maxExams) ==
  /\ ~generated /\ Len(exams) < maxExams
  /\ SetExams(Append(exams, FreshId(exams, listening)),
              [examObjs EXCEPT ![FreshId(exams, listening)] = BlankExam], listening)
  /\ plannerOp' = "addExam"
  /\ UNCHANGED <<planVars, notPlannerVars>>

\* the condition of removeExam, line 465
RemovesAlways(n) == TRUE
KeepsOne(n) == n > 1

\* removeExam, lines 464-470
RemoveExam(idx) ==
  /\ ~generated /\ idx \in 1..Len(exams)
  /\ IF KeepsOne(Len(exams))
     THEN /\ SetExams([i \in 1..(Len(exams) - 1) |-> IF i < idx THEN exams[i] ELSE exams[i + 1]],
                      examObjs, listening)
          /\ plannerOp' = "removeExam"
     ELSE /\ SetExams(<<FreshId(exams, listening)>>,
                      [examObjs EXCEPT ![FreshId(exams, listening)] = BlankExam], listening)
          /\ plannerOp' = "removeOnlyExam"
  /\ UNCHANGED <<planVars, notPlannerVars>>

\* updateExam, lines 472-476, on the array ids
UpdateExamOf(ids, idx, field, value, l) ==
  SetExams(ids, [examObjs EXCEPT ![ids[idx]][field] = value], l)

\* the name or the date of a row is edited (lines 634, 649)
UpdateExam(idx, field, value) ==
  /\ ~generated /\ idx \in 1..Len(exams)
  /\ examObjs[exams[idx]][field] # value
  /\ UpdateExamOf(exams, idx, field, value, listening)
  /\ plannerOp' = "updateExam"
  /\ UNCHANGED <<planVars, notPlannerVars>>

\* toggleListening for the name of row idx (lines 423-460, 639): the
\* callback keeps the row, its text and the array of this render
StartListening(idx) ==
  /\ ~generated /\ idx \in 1..Len(exams)
  /\ (listening # None => listening.idx # idx)
  /\ listening' = [kind |-> "exam", idx |-> idx, snap |-> exams,
                   text |-> examObjs[exams[idx]].name]
  /\ examObjs' = Collect(examObjs, LiveIds(exams, None))
  /\ plannerOp' = "listen"
  /\ UNCHANGED <<exams, examStorage, planVars, notPlannerVars>>

\* the recognition ends, fails or is switched off (lines 424-428, 451-456)
StopListening ==
  /\ listening # None
  /\ listening' = None
  /\ examObjs' = Collect(examObjs, LiveIds(exams, None))
  /\ plannerOp' = "listenEnd"
  /\ UNCHANGED <<exams, examStorage, planVars, notPlannerVars>>

\* currentText + separator + transcript, lines 447-448
Join(text, t) == IF text = "" THEN t
                 ELSE IF text = " " THEN " " \o t ELSE text \o " " \o t

\* recognition.onresult, lines 445-449: updateExam of the render in which
\* the input was started
VoiceResult(t) ==
  /\ listening # None /\ Join(listening.text, t) \in Names
  /\ UpdateExamOf(listening.snap, listening.idx, "name", Join(listening.text, t), listening)
  /\ plannerOp' = "voice"
  /\ UNCHANGED <<planVars, notPlannerVars>>

\* the exams handleGenerate passes on, line 483
ValidExams == SelectSeq(Deref(exams, examObjs),
                        LAMBDA e : Trim(e.name) # "" /\ e.date # "")

\* click on Generate Study Schedule (lines 695-697), handleGenerate up to
\* its await (lines 478-491)
PlannerHandleGenerate ==
  /\ ~generated /\ ~planLoading
  /\ exams # <<>> /\ examObjs[exams[1]].name # "" /\ examObjs[exams[1]].date # ""
  /\ IF isOffline \/ ValidExams = <<>>
     THEN UNCHANGED <<plan, planStorage, planLoading, generated, planPending>>
     ELSE /\ planLoading' = TRUE
          /\ SetPlan(<<>>, FALSE)
          /\ planPending' = TRUE
  /\ plannerOp' = "generate"
  /\ UNCHANGED <<examVars, editingNote, noteContent, isOffline, notPlannerVars>>

\* generateStudyPlan resolves with a plan of n days (lines 491-494, 499-500)
PlanResolved(n) ==
  /\ planPending
  /\ SetPlan(GeneratedPlan(n), TRUE)
  /\ planLoading' = FALSE
  /\ planPending' = FALSE
  /\ plannerOp' = "resolved"
  /\ UNCHANGED <<examVars, editingNote, noteContent, isOffline, notPlannerVars>>

\* generateStudyPlan rejects (lines 495-500)
PlanFailed ==
  /\ planPending
  /\ planLoading' = FALSE
  /\ planPending' = FALSE
  /\ plannerOp' = "failed"
  /\ UNCHANGED <<examVars, plan, planStorage, generated, editingNote, noteContent,
                 isOffline, notPlannerVars>>

\* click on Reset Plan (line 748), handleClearPlan (lines 503-509); the
\* user confirms or not
HandleClearPlan(confirmed) ==
  /\ generated
  /\ IF confirmed
     THEN /\ plan' = <<>>
          /\ generated' = FALSE
          /\ planStorage' = RemoveItem(planStorage)
          /\ plannerOp' = "clear"
     ELSE UNCHANGED <<plan, generated, planStorage, plannerOp>>
  /\ UNCHANGED <<examVars, planLoading, planPending, editingNote, noteContent,
                 isOffline, notPlannerVars>>

\* a handler that replaces the tasks of day d
SetTasks(d, tasks) ==
  /\ SetPlan([plan EXCEPT ![d].tasks = tasks], generated)
  /\ UNCHANGED <<examVars, planLoading, planPending, isOffline, notPlannerVars>>

\* toggleTaskCompletion, lines 511-525
ToggleTaskCompletion(d, t) ==
  /\ generated /\ d \in 1..Len(plan) /\ t \in 1..Len(plan[d].tasks)
  /\ SetTasks(d, [plan[d].tasks EXCEPT ![t].completed = ~@])
  /\ plannerOp' = "toggle"
  /\ UNCHANGED <<editingNote, noteContent>>

\* clearCompletedForDay, lines 548-554
ClearCompletedForDay(d) ==
  /\ generated /\ d \in 1..Len(plan)
  /\ SetTasks(d, SelectSeq(plan[d].tasks, LAMBDA t : ~t.completed))
  /\ plannerOp' = "clearCompleted"
  /\ UNCHANGED <<editingNote, noteContent>>

\* the tasks of one priority, in their order
OfPriority(tasks, p) == SelectSeq(tasks, LAMBDA t : t.priority = p)

\* sortTasks by priority, lines 557-573: Array.prototype.sort is stable
SortTasks(d) ==
  /\ generated /\ d \in 1..Len(plan)
  /\ SetTasks(d, OfPriority(plan[d].tasks, "High") \o OfPriority(plan[d].tasks, "Medium")
                 \o OfPriority(plan[d].tasks, "Low"))
  /\ plannerOp' = "sort"
  /\ UNCHANGED <<editingNote, noteContent>>

\* startEditingNote, lines 576-579
StartEditingNote(d, t) ==
  /\ generated /\ d \in 1..Len(plan) /\ t \in 1..Len(plan[d].tasks)
  /\ editingNote' = [kind |-> "note", dayIdx |-> d, taskIdx |-> t]
  /\ noteContent' = plan[d].tasks[t].notes
  /\ plannerOp' = "editNote"
  /\ UNCHANGED <<examVars, plan, planStorage, planLoading, generated, planPending,
                 isOffline, notPlannerVars>>

\* the note editor is shown in the task it points to (line 919)
EditorShown ==
  /\ generated /\ editingNote # None
  /\ editingNote.dayIdx \in 1..Len(plan)
  /\ editingNote.taskIdx \in 1..Len(plan[editingNote.dayIdx].tasks)

\* typing in the editor (line 923)
SetNoteContent(c) ==
  /\ EditorShown /\ c # noteContent
  /\ noteContent' = c
  /\ plannerOp' = "typeNote"
  /\ UNCHANGED <<examVars, plan, planStorage, planLoading, generated, planPending,
                 editingNote, isOffline, notPlannerVars>>

\* Cancel (line 930)
CancelEditing ==
  /\ EditorShown
  /\ editingNote' = None
  /\ plannerOp' = "cancelNote"
  /\ UNCHANGED <<examVars, plan, planStorage, planLoading, generated, planPending,
                 noteContent, isOffline, notPlannerVars>>

\* saveNote, lines 581-590
SaveNote ==
  /\ EditorShown
  /\ SetTasks(editingNote.dayIdx,
              [plan[editingNote.dayIdx].tasks EXCEPT ![editingNote.taskIdx].notes = noteContent])
  /\ editingNote' = None
  /\ noteContent' = ""
  /\ plannerOp' = "saveNote"

\* the 'online' and 'offline' events, lines 391-401
SetIsOffline(b) ==
  /\ isOffline # b
  /\ isOffline' = b
  /\ UNCHANGED <<examVars, plan, planStorage, planLoading, generated, planPending,
                 editingNote, noteContent, plannerOp, notPlannerVars>>

\* The planner is mounted again: its state starts over from localStorage;
\* a handleGenerate or a voice input of the component that is gone updates
\* nothing.
PlannerRemount ==
  /\ plannerOp # "mount"
  /\ exams' = [i \in 1..Len(LoadExams(examStorage)) |-> i]
  /\ examObjs' = [i \in ExamIds |-> IF i <= Len(LoadExams(examStorage))
                                    THEN LoadExams(examStorage)[i] ELSE BlankExam]
  /\ examStorage' = Stored(StringifyExams(LoadExams(examStorage)))
  /\ listening' = None
  /\ plan' = LoadPlan(planStorage)
  /\ planStorage' = PersistPlan(LoadPlan(planStorage), planStorage)
  /\ planLoading' = FALSE
  /\ generated' = (Len(LoadPlan(planStorage)) > 0)
  /\ planPending' = FALSE
  /\ editingNote' = None /\ noteContent' = ""
  /\ plannerOp' = "mount"
  /\ UNCHANGED <<isOffline, notPlannerVars>>

\* the exam list and the voice input into it
NextExams ==
  \/ AddExam(MaxExams)
  \/ \E idx \in 1..MaxExams : RemoveExam(idx)
  \/ \E idx \in 1..MaxExams, value \in Names \ {" "} : UpdateExam(idx, "name", value)
  \/ \E idx \in 1..MaxExams, value \in Dates : UpdateExam(idx, "date", value)
  \/ \E idx \in 1..MaxExams : StartListening(idx)
  \/ StopListening
  \/ \E t \in Transcripts : VoiceResult(t)
  \/ PlannerRemount

\* the plan, with one exam in the list
NextPlan ==
  \/ \E value \in Names : UpdateExam(1, "name", value)
  \/ \E value \in Dates : UpdateExam(1, "date", value)
  \/ PlannerHandleGenerate
  \/ \E n \in 0..MaxDays : PlanResolved(n)
  \/ PlanFailed
  \/ \E confirmed \in BOOLEAN : HandleClearPlan(confirmed)
  \/ \E d \in 1..MaxDays, t \in 1..2 : ToggleTaskCompletion(d, t)
  \/ \E d \in 1..MaxDays : ClearCompletedForDay(d)
  \/ \E d \in 1..MaxDays : SortTasks(d)
  \/ \E d \in 1..MaxDays, t \in 1..2 : StartEditingNote(d, t)
  \/ \E c \in Notes : SetNoteContent(c)
  \/ CancelEditing
  \/ SaveNote
  \/ \E b \in BOOLEAN : SetIsOffline(b)
  \/ PlannerRemount

\* ------------------------------------------------------------ the session
PcmIdle ==
  sample = <<>> /\ encoded = <<>> /\ pcmBytes = <<>> /\ decoded = <<>> /\ pcmPc = "off"

Init == SessionInit /\ PcmIdle /\ PanelInit

\* the steps of startSession, the connection callbacks and the buttons
Lifecycle ==
  \/ \E a \in Attempts : MicGranted(a)
  \/ \E a \in Attempts : MicDenied(a)
  \/ \E a \in Attempts : SessionResolved(a)
  \/ \E a \in Attempts : SessionRejected(a)
  \/ \E a \in Attempts : OnOpen(a)
  \/ \E a \in Attempts : OnClose(a)
  \/ \E a \in Attempts : OnError(a)
  \/ StopClick
  \/ Unmount

\* server messages and the playback they drive
Playback(msgLimit) ==
  \/ \E a \in Attempts, len \in 0..MaxBytes, i \in BOOLEAN :
        nMsgs < msgLimit /\ OnMessage(a, len, i)
  \/ DecodeResume
  \/ \E s \in sourcesRef : Ended(s)
  \/ StoppedEnded
  \/ Tick

\* microphone buffers
Capture(limit) == \E a \in Attempts : AudioProcess(a, limit)

Events(msgLimit) == Lifecycle \/ Playback(msgLimit)

\* Any number of Start Session clicks (up to MaxStarts)
Next == StartClick(MaxStarts) \/ Events(MaxMsgsAcrossStarts)

Spec == Init /\ [][Next]_vars

\* One live session: the component is mounted and Start Session is clicked
\* once
NextOneSession == StartClick(1) \/ Events(MaxMsgs)

SpecOneSession == Init /\ [][NextOneSession]_vars

\* One live session and its microphone.  Capture and playback share no
\* state: onaudioprocess reads the connect promise and the connection,
\* onmessage reads neither, so each is checked with the lifecycle alone.
NextCapture == StartClick(1) \/ Lifecycle \/ Capture(MaxFrames)

SpecCapture == Init /\ [][NextCapture]_vars

SpecQuiz == Init /\ [][NextQuiz]_vars

SpecQuizHistory == Init /\ [][NextQuizHistory]_vars

\* the exam list of the study planner
SpecExams == Init /\ [][NextExams]_vars

\* the plan of the study planner
SpecPlan == Init /\ [][NextPlan]_vars

\* ====================================================== PCM helpers
\* A sample x is held as the integer n with x = n / (FullScale * SubSteps),
\* so that values between two 16-bit steps exist.
FullScale == 32768
Unit == FullScale * SubSteps

\* every sample in [-1.0, 1.0]
SampleRange == (-Unit)..Unit
\* the samples used in buffers of more than one sample
EdgeSamples == {-Unit, -1, 0, 1, Unit - 1, Unit}

\* createBlob, line 137: int16[i] = data[i] * 32768.  Storing into an
\* Int16Array truncates toward zero and wraps modulo 2^16.
Truncate(n) == IF n >= 0 THEN n \div SubSteps ELSE -((-n) \div SubSteps)
WrapInt16(t) == ((t + 32768) % 65536) - 32768
ToInt16(n) == WrapInt16(Truncate(n))

\* createBlob, line 138: the bytes of the Int16Array, little-endian
Int16Bytes(i) == LET u == i % 65536 IN <<u % 256, u \div 256>>

RECURSIVE PcmBytes(_)
PcmBytes(data) ==
  IF data = <<>> THEN <<>>
  ELSE Int16Bytes(ToInt16(Head(data))) \o PcmBytes(Tail(data))

\* createBlob, lines 139-141: btoa.  A base64 character is its index in
\* the alphabet, 64 is the padding character '='.
Pad == 64
RECURSIVE Btoa(_)
Btoa(b) ==
  IF Len(b) = 0 THEN <<>>
  ELSE IF Len(b) = 1 THEN <<b[1] \div 4, (b[1] % 4) * 16, Pad, Pad>>
  ELSE IF Len(b) = 2
       THEN <<b[1] \div 4, (b[1] % 4) * 16 + b[2] \div 16, (b[2] % 16) * 4, Pad>>
  ELSE <<b[1] \div 4, (b[1] % 4) * 16 + b[2] \div 16,
         (b[2] % 16) * 4 + b[3] \div 64, b[3] % 64>>
       \o Btoa(SubSeq(b, 4, Len(b)))

\* createBlob, lines 134-143 (the data field of the blob)
CreateBlob(data) == Btoa(PcmBytes(data))

\* decode, lines 146-151: atob, then one byte per character code
RECURSIVE Atob(_)
Atob(c) ==
  IF Len(c) < 4 THEN <<>>
  ELSE LET b1 == c[1] * 4 + c[2] \div 16
           b2 == (c[2] % 16) * 16 + c[3] \div 4
           b3 == (c[3] % 4) * 64 + c[4]
       IN IF c[3] = Pad THEN <<b1>>
          ELSE IF c[4] = Pad THEN <<b1, b2>>
          ELSE <<b1, b2, b3>> \o Atob(SubSeq(c, 5, Len(c)))

Decode(base64) == Atob(base64)

\* decodeAudioData, lines 153-164: the Int16Array view of the bytes
\* (little-endian), each value divided by 32768.  The result is held in
\* units of 1/32768.
Int16At(b, i) ==
  LET u == b[2 * i - 1] + 256 * b[2 * i] IN IF u >= 32768 THEN u - 65536 ELSE u

DecodeAudioData(b) == [i \in 1..(Len(b) \div 2) |-> Int16At(b, i)]

\* The buffers tried: every single sample of the range, and every longer
\* buffer of edge samples.
RECURSIVE Buffers(_)
Buffers(n) ==
  IF n = 0 THEN {<<>>}
  ELSE {Append(b, x) : b \in Buffers(n - 1), x \in EdgeSamples}

PcmInit ==
  /\ sample \in {<<x>> : x \in SampleRange}
                \cup UNION {Buffers(n) : n \in 2..MaxSamples}
  /\ encoded = <<>> /\ pcmBytes = <<>> /\ decoded = <<>> /\ pcmPc = "captured"

\* onaudioprocess, line 69
PcmEncode ==
  /\ pcmPc = "captured"
  /\ encoded' = CreateBlob(sample)
  /\ pcmPc' = "encoded"
  /\ UNCHANGED <<sample, pcmBytes, decoded, sessionVars, captureVars, panelVars>>

\* onmessage, line 86: decode(base64Audio)
PcmDecode ==
  /\ pcmPc = "encoded"
  /\ pcmBytes' = Decode(encoded)
  /\ pcmPc' = "bytes"
  /\ UNCHANGED <<sample, encoded, decoded, sessionVars, captureVars, panelVars>>

\* onmessage, line 86: decodeAudioData(...)
PcmDecodeAudioData ==
  /\ pcmPc = "bytes"
  /\ decoded' = DecodeAudioData(pcmBytes)
  /\ pcmPc' = "decoded"
  /\ UNCHANGED <<sample, encoded, pcmBytes, sessionVars, captureVars, panelVars>>

InitPcm == SessionInit /\ PcmInit /\ PanelInit

NextPcm == PcmEncode \/ PcmDecode \/ PcmDecodeAudioData

SpecPcm == InitPcm /\ [][NextPcm]_vars

Abs(x) == IF x >= 0 THEN x ELSE -x

\* C5: for every sample x in [-1.0, 1.0], endpoints included, the decoded
\* PCM encoding of x is within 1/32768 of x.
C5_RoundTripWithinOneStep ==
  pcmPc = "decoded" =>
    /\ Len(decoded) = Len(sample)
    /\ \A i \in 1..Len(sample) : Abs(decoded[i] * SubSteps - sample[i]) <= SubSteps

\* ============================================================ claims
\* C1: within one session, with no interruption and no stop in between, a
\* chunk that arrives before its predecessor's scheduled end starts exactly
\* at that end; every start is at or after the clock at arrival, and after
\* scheduling the cursor is the end of the chunk just scheduled.
C1_Gapless ==
  /\ (prevSched.kind = "chunk" /\ lastSched.kind = "chunk"
      /\ lastSched.at < End(prevSched))
       => lastSched.start = End(prevSched)
  /\ lastSched.kind = "chunk" => lastSched.start >= lastSched.at
  /\ lastOp = "scheduled" => nextStartTimeRef = End(lastSched)

C1_Witness ==
  /\ prevSched.kind = "chunk" /\ lastSched.kind = "chunk"
  /\ lastSched.at > prevSched.at /\ lastSched.at < End(prevSched)
  /\ lastSched.start = End(prevSched)

\* C2: after a message carrying the interrupted signal has been handled in
\* a live session (Connected, playback context in place) the queue is empty, the cursor is zero and the session is not Speaking; the
\* first chunk scheduled after an interruption starts at the clock's value
\* at its arrival.
C2_InterruptionClears ==
  /\ (lastOp = "interrupted" /\ isConnected /\ outputContextRef # Null)
       => (sourcesRef = {} /\ nextStartTimeRef = 0 /\ ~isSpeaking)
  /\ (prevSched.kind = "interrupt" /\ lastSched.kind = "chunk")
       => lastSched.start = lastSched.at

\* C3: after an explicit stop, a remote close, or a remote or local error
\* the session is Disconnected, every audio context is closed, the queue is
\* empty, and no connection is open, being opened or referenced.
C3_TeardownReleasesEverything ==
  lastOp \in TeardownOps =>
    /\ ~isConnected /\ sourcesRef = {} /\ sessionRef = Null
    /\ \A a \in Attempts :
         /\ inputCtx[a] # "running" /\ outputCtx[a] # "running"
         /\ conn[a] \notin {"connecting", "open"}

\* the state stopSession leaves (lines 28-43)
Disconnected ==
  /\ ~isConnected /\ ~isSpeaking /\ sourcesRef = {}
  /\ sessionRef = Null /\ inputContextRef = Null /\ outputContextRef = Null

\* C4: every stopSession leaves the session Disconnected with every
\* reference null and the queue empty and raises no error (no context is
\* closed twice); a stopSession that directly follows another one closes
\* nothing and stops nothing.
C4_StopIdempotent ==
  [][/\ lastOp' \in TeardownOps => (Disconnected' /\ ~closeError')
     /\ lastOp' = "stoppedAgain" =>
          /\ inputCtx' = inputCtx /\ outputCtx' = outputCtx
          /\ sessionRef = Null /\ pendingEnded' = pendingEnded]_vars

\* a stop that stopped queued buffers, followed by the close notification
C4_Witness ==
  /\ lastOp = "stoppedAgain" /\ pendingEnded > 0
  /\ \E a \in Attempts : outputCtx[a] = "closed" /\ conn[a] = "closed"

\* C6: between handlers, the playback queue is empty exactly when the
\* session is not Speaking.
C6_QueueEmptyIffNotSpeaking ==
  decoding = None => ((sourcesRef = {}) <=> ~isSpeaking)

\* C7: in a run of chunks that each arrive before the predecessor's end, the
\* session became Speaking exactly once, and it is not Speaking only when
\* nothing is decoding, the queue is empty and the last chunk has played to
\* its end.
C7_SpeakingOncePerRun ==
  run.active =>
    /\ run.rises = 1
    /\ ~isSpeaking =>
         /\ decoding = None /\ sourcesRef = {}
         /\ lastSched.kind = "chunk"
         /\ currentTime[lastSched.ctx] >= End(lastSched)

C7_Witness ==
  /\ run.active /\ ~isSpeaking /\ isConnected
  /\ prevSched.kind = "chunk" /\ lastSched.kind = "chunk"
  /\ lastSched.at < End(prevSched)

\* C8: after a connection error while Connecting the session is
\* Disconnected, the connection error message is shown and the microphone
\* stream of that start is released.
C8_ErrorWhileConnecting ==
  (lastOp = "errorConnecting" /\ mounted) =>
    /\ ~isConnected /\ error = ConnectionError
    /\ stream = {}

\* C9: after microphone access has failed the error message is shown, the
\* session is Disconnected with the context references cleared, and the
\* contexts of a start whose microphone request failed are closed and no
\* connection was attempted for it.
C9_MicDenied ==
  /\ (lastOp = "micDenied" /\ mounted) =>
       /\ error = StartError /\ ~isConnected
       /\ inputContextRef = Null /\ outputContextRef = Null
  /\ \A a \in Attempts :
       (pc[a] = "done" /\ a \notin stream) =>
         /\ inputCtx[a] = "closed" /\ outputCtx[a] = "closed"
         /\ conn[a] = "none"

\* C10: buffers that are in the queue together were scheduled in arrival
\* order on one context, each starting at or after the end of every
\* earlier one.
C10_NoOverlap ==
  \A s, t \in sourcesRef :
    s.id < t.id => (t.start >= End(s) /\ t.at >= s.at /\ t.ctx = s.ctx)

C10_Witness ==
  /\ pendingEnded > 0
  /\ \E s, t \in sourcesRef : s.id < t.id /\ t.at > s.at /\ t.at < End(s)

\* C11: isConnected becomes true only in onopen, and a start whose
\* connection has received or been promised a captured buffer has had its
\* onopen run: buffers are captured and sent only after onopen.
C11_ConnectedOnlyThroughOnOpen ==
  [][/\ (~isConnected /\ isConnected') => lastOp' = "open"
     /\ \A a \in Attempts :
          (captured'[a] > 0 \/ pendingFrames'[a] # <<>> \/ sentFrames'[a] # <<>>)
            => (a \in processors' /\ conn'[a] \notin {"none", "connecting"})]_vars

C11_Witness ==
  \E a \in Attempts : isConnected /\ conn[a] = "open" /\ sentFrames[a] # <<>>

\* C12: the buffers a session has captured are, in capture order and each
\* exactly once, the ones its connection received followed by the ones
\* still waiting for the connect promise; once the promise is fulfilled
\* none is waiting, and every buffer sent is tagged audio/pcm;rate=16000.
C12_FramesSentOnceInOrder ==
  \A a \in Attempts :
    LET frames == sentFrames[a] \o pendingFrames[a] IN
      /\ Len(frames) = captured[a]
      /\ \A i \in 1..Len(frames) :
           frames[i].data = i /\ frames[i].mimeType = "audio/pcm;rate=16000"
      /\ promise[a] = "resolved" => pendingFrames[a] = <<>>
      /\ promise[a] # "resolved" => sentFrames[a] = <<>>

C12_Witness ==
  \E a \in Attempts :
    lastOp = "resolved" /\ conn[a] = "open" /\ Len(sentFrames[a]) >= 2

\* C13: a start for which a connection was initiated has created both its
\* audio contexts and has been granted its microphone stream.
C13_ConnectAfterContextsAndMic ==
  \A a \in Attempts :
    (conn[a] # "none" \/ promise[a] # "none") =>
      /\ inputCtx[a] # "none" /\ outputCtx[a] # "none"
      /\ a \in stream

C13_Witness ==
  \E a \in Attempts :
    /\ conn[a] = "connecting" /\ promise[a] = "pending"
    /\ inputCtx[a] = "running" /\ outputCtx[a] = "running"

\* C15: when the decode of a payload with an odd byte length fails, the
\* session stays as connected as it was, nothing is torn down or closed and
\* the cursor and the queue are left as they were; a payload of whole
\* samples that is decoded afterwards is added to the queue, starting at
\* the cursor, at or after the clock, and the cursor moves to its end.
C15_MalformedChunkFailsAlone ==
  [][/\ (decoding # None /\ decoding.len % 2 # 0 /\ decoding' = None) =>
          UNCHANGED <<isConnected, error, sourcesRef, nextStartTimeRef, pendingEnded,
                      inputContextRef, outputContextRef, sessionRef, conn,
                      inputCtx, outputCtx, prevSched, lastSched>>
     /\ (decoding # None /\ decoding.len % 2 = 0 /\ ~decoding.interrupted
         /\ decoding' = None) =>
          /\ sourcesRef' = sourcesRef \cup {lastSched'}
          /\ lastSched'.id = decoding.id /\ lastSched'.dur = decoding.len \div 2
          /\ lastSched'.start = nextStartTimeRef /\ lastSched'.start >= decoding.at
          /\ nextStartTimeRef' = End(lastSched')]_vars

\* the second effective message was scheduled as the first chunk of the
\* session: the first one was a payload that failed to decode
C15_Witness ==
  /\ lastOp = "scheduled" /\ isConnected
  /\ lastSched.kind = "chunk" /\ lastSched.id = 2 /\ prevSched = None
  /\ sourcesRef = {lastSched} /\ pendingEnded = 0

\* C14: when the remote side reports an error on an open connection or
\* closes it, the session is Disconnected afterwards with its contexts
\* closed, the queue empty and the connection released, and the connection
\* error message is shown.
C14_RemoteFailureReported ==
  [][\A a \in Attempts :
       (mounted /\ conn[a] = "open" /\ conn'[a] \in {"closed", "failed"}) =>
         /\ ~isConnected' /\ sourcesRef' = {} /\ sessionRef' = Null
         /\ inputContextRef' = Null /\ outputContextRef' = Null
         /\ inputCtx'[a] = "closed" /\ outputCtx'[a] = "closed"
         /\ error' = ConnectionError]_vars

\* C16: after a click on End Session no context was closed while the
\* playback queue still held a source.
C16_QueueDrainedBeforeClose ==
  lastOp = "stop" => ~closedWithQueue

\* C17: when a step of startSession resumes (the microphone request or the
\* connect promise settles) for a start whose contexts a teardown has
\* already closed, then afterwards that start has no connection open or
\* being opened, its session is not retained in sessionRef, no capture
\* pipeline was started and the playback queue is empty.
C17_TeardownCancelsSuspendedSteps ==
  [][\A a \in Attempts :
       (inputCtx[a] = "closed" /\ outputCtx[a] = "closed" /\ pc'[a] # pc[a]) =>
         /\ conn'[a] \notin {"connecting", "open"}
         /\ sessionRef' # a
         /\ processors' = processors
         /\ sourcesRef' = {}]_vars

\* C18: at no time is more than one connection open or being opened, and
\* at no time is more than one capture context or more than one playback
\* context running.
C18_AtMostOneLiveSession ==
  /\ Cardinality({a \in Attempts : conn[a] \in {"connecting", "open"}}) <= 1
  /\ Cardinality({a \in Attempts : inputCtx[a] = "running"}) <= 1
  /\ Cardinality({a \in Attempts : outputCtx[a] = "running"}) <= 1

\* C19: the first chunk scheduled since the last teardown, on the context
\* of a session whose connection is the only one that is open or being
\* opened, starts at the clock of that context at its arrival.
C19_FirstChunkAtClock ==
  (/\ lastOp = "scheduled" /\ lastSched.kind = "chunk" /\ prevSched = None
   /\ conn[lastSched.ctx] = "open"
   /\ \A b \in Attempts \ {lastSched.ctx} : conn[b] \notin {"connecting", "open"})
    => lastSched.start = lastSched.at

\* C20: isSpeaking implies isConnected.
C20_SpeakingImpliesConnected ==
  isSpeaking => isConnected

\* C21: while the last playback event is an interruption the queue is
\* empty and a decode that is pending belongs to the newest message, not to
\* one received before the interruption; the step that handles the
\* interruption leaves no decode pending and the cursor at zero, and the
\* cursor leaves zero only when a later chunk arrives.
C21_NoChunkAcrossInterruption ==
  [][/\ lastSched'.kind = "interrupt" =>
          /\ sourcesRef' = {}
          /\ decoding' # None => decoding'.id = nMsgs'
     /\ (lastSched.kind # "interrupt" /\ lastSched'.kind = "interrupt") =>
          (decoding' = None /\ nextStartTimeRef' = 0)
     /\ (lastSched.kind = "interrupt" /\ lastSched'.kind = "interrupt"
         /\ nextStartTimeRef' # nextStartTimeRef) =>
          \/ nextStartTimeRef' = 0
          \/ decoding' # None /\ nMsgs' = nMsgs + 1]_vars

\* two messages, the second with audio and the interruption flag: both
\* buffers were started and then stopped by the interruption block
C21_Witness ==
  /\ isConnected /\ lastOp = "interrupted" /\ lastSched.kind = "interrupt"
  /\ nMsgs = 2 /\ pendingEnded = 2 /\ nextStartTimeRef = 0 /\ sourcesRef = {}

\* C22: a quiz is allotted one minute per question.  While the view is
\* QUIZ the remaining time is never negative and, with the seconds elapsed
\* since the quiz was started, adds up to one minute for each question of
\* the quiz; a quiz that the timer finished ran for its whole allotted
\* time, shows the result and added the newest entry of the history.
C22_MinutePerQuestion ==
  /\ (view = "QUIZ" /\ QuizLive) =>
       /\ timeLeft >= 0
       /\ timeLeft + elapsed = SecondsPerQuestion * Len(quiz)
  /\ (view = "RESULT" /\ finishedBy = "timer") =>
       /\ timeLeft = 0
       /\ elapsed = SecondsPerQuestion * Len(quiz)
       /\ finishedLog # <<>> /\ history # <<>>
       /\ history[1] = finishedLog[1]

\* C24: whenever the view is QUIZ the quiz is non-empty and the index of
\* the current question is one of its positions.
C24_CurrentQuestionExists ==
  view = "QUIZ" =>
    /\ quiz # <<>>
    /\ 0 <= currentQuestionIndex /\ currentQuestionIndex < Len(quiz)

\* C23: the history holds at most HistoryLimit results; they are the most
\* recently finished quizzes, newest first, so the quiz finished last is
\* its first entry; and the value stored under 'vidya_quiz_history' is
\* the serialised history and parses back to it.
C23_HistoryKeepsLastTen ==
  /\ Len(history) <= HistoryLimit
  /\ history = SubSeq(finishedLog, 1, IF Len(finishedLog) < HistoryLimit
                                      THEN Len(finishedLog) ELSE HistoryLimit)
  /\ finishedLog # <<>> => history[1] = finishedLog[1]
  /\ quizStorage = Stored(Stringify(history))
  /\ LoadHistory(quizStorage) = history

\* more quizzes than the history holds were finished, one of them with a
\* correct answer, the last one by the timer
C23_Witness ==
  /\ Len(finishedLog) > HistoryLimit /\ Len(history) = HistoryLimit
  /\ view = "RESULT" /\ finishedBy = "timer"
  /\ \E i \in 1..Len(history) : history[i].score = 1

\* C25: the exam list of the study planner always holds at least one
\* entry, and so does the list a reload reads from 'vidya_exams', which
\* is the list in memory; after the only entry was removed the list is a
\* single blank exam.
C25_ExamListNeverEmpty ==
  /\ Len(exams) >= 1
  /\ examStorage.present
  /\ Len(LoadExams(examStorage)) >= 1
  /\ LoadExams(examStorage) = Deref(exams, examObjs)
  /\ plannerOp = "removeOnlyExam" => Deref(exams, examObjs) = <<BlankExam>>

\* the only row, named "math" when a voice input was started on it, was
\* removed
C25_Witness ==
  /\ plannerOp = "removeOnlyExam"
  /\ Deref(exams, examObjs) = <<BlankExam>>
  /\ listening # None /\ Len(listening.snap) = 1
  /\ examObjs[listening.snap[1]].name = "math"

\* C26: the value stored under 'vidya_study_plan' is the plan in memory
\* when that plan is non-empty and is absent when it is empty, so that a
\* reload reads the plan in memory.
C26_PlanInSyncWithStorage ==
  /\ planStorage = IF plan = <<>> THEN Absent ELSE Stored(StringifyPlan(plan))
  /\ LoadPlan(planStorage) = plan

\* a note was saved in a plan with a completed task
C26_Witness ==
  /\ plannerOp = "saveNote" /\ plan # <<>>
  /\ \E t \in 1..Len(plan[1].tasks) : plan[1].tasks[t].notes # ""
  /\ \E t \in 1..Len(plan[1].tasks) : plan[1].tasks[t].completed
  /\ planStorage = Stored(StringifyPlan(plan))

====
